---- MODULE Spec2Model ----
(***************************************************************************)
(* Model of the end-to-end harness of terraform-mcp-server                 *)
(* (e2e/e2e_test.go): TestE2E builds the image, runs the Stdio and HTTP    *)
(* sub-tests one after the other, and sweeps the test containers at the    *)
(* end.  The Go testing runtime is modelled as far as the harness uses     *)
(* it: t.Run blocks until the sub-test is done, FailNow ends the calling   *)
(* test function only (runtime.Goexit: deferred calls, then the test's     *)
(* t.Cleanup stack, then the parent goes on), a panic in a test function   *)
(* crashes the test binary after that test's own cleanups, and log.Fatalf  *)
(* is os.Exit(1): nothing deferred and no cleanup runs.                    *)
(***************************************************************************)
EXTENDS Integers, Sequences, FiniteSets, TLC

\* ---------------------------------------------------------------- bounds
\* Cases per tool table (the tables live outside this file).
NumCases == 2
\* Calls the cleanup harness makes.
MaxCalls == 2

\* ------------------------------------------------------ program constants
maxAttempts == 30
interval == 1
IdLen == 12

Variants == <<"Stdio", "HTTP">>
Tables == <<"resolveProviderDocID", "getProviderDocs", "searchModules", "moduleDetails">>
TestImage == "terraform-mcp-server:test-e2e"

\* ------------------------------------------------------- container runtime
\* Containers that may be running before the run starts: two of the test
\* image (left over from another run) and one of an unrelated image.  "h1" is
\* the container `docker run` creates for the HTTP sub-test.
PreExisting == {"t1", "t2", "o1"}
HttpContainer == "h1"
Image(c) == IF c \in {"t1", "t2", "h1"} THEN TestImage ELSE "other:latest"

\* What `docker run -d` can hand back to cmd.Output(): an exec error, or exit 0
\* with an output of some length (a full identifier and newline is 65 bytes).
LaunchOutputs ==
    {[err |-> TRUE, len |-> 0], [err |-> FALSE, len |-> 0],
     [err |-> FALSE, len |-> 11], [err |-> FALSE, len |-> 65]}

\* `docker stop ARGS` / `docker kill ARGS`: the runtime acts on the containers
\* named as arguments; with no argument the CLI exits non-zero at once
\* ("requires at least 1 argument") and reads nothing from stdin.
\* ok is whether the runtime carried the command out.
DockerStops(cmd, ok, running) ==
    IF cmd.args = {} \/ ~ok THEN {} ELSE cmd.args \cap running
DockerExitOK(cmd, ok, running) ==
    cmd.args # {} /\ ok /\ cmd.args \subseteq running

\* `docker ps -q --filter ancestor=IMAGE`: the running containers of the image.
DockerPs(image, running) == {c \in running : Image(c) = image}

\* -------------------------------------------------------------- the state
VARIABLES
    pc,          \* position in the harness
    retpc,       \* where the running cleanup routine returns to
    proc,        \* "running", "exited", "osexit" (log.Fatalf), "panicked"
    failed,      \* tests marked failed, among TestE2E, Stdio, HTTP
    build,       \* the image build: [count of invocations, ok of the last one]
    topCleanups, \* t.Cleanup stack of TestE2E
    subCleanups, \* t.Cleanup stack of the running sub-test
    deferred,    \* the sub-test function has reached `defer cleanup()`
    v,           \* index in Variants of the running sub-test, 0 before the loop
    subtestsRun, \* sub-tests started so far
    created,     \* variants whose factory returned a client
    closeCount,  \* client.Close calls per variant
    containerID, \* the handle createHTTPClient holds ("" when none)
    stopArg,     \* the argument of the running stopContainer call
    live,        \* running containers
    started,     \* containers started by startHTTPContainer
    stopped,     \* containers on which a stop or kill succeeded
    cmdFailed,   \* a docker stop/kill/ps command of the harness failed
    launch,      \* what the launch command returned, "none" before it ran
    wfs,         \* waitForServer: [i, gets, elapsed, resp, result]
    hsFailedIn,  \* where client.Initialize returned an error
    tbl, cs,     \* running tool table and case
    ran,         \* the tool cases executed by the running sub-test, in order
    firstFail,   \* first failed tool case of the running sub-test, <<0, 0>> if none
    sweep,       \* cleanupAllTestContainers: [ran, done, listOK, listed, before]
    calls,       \* cleanup harness: the calls made so far
    http,        \* createHTTPClient: locals and the addresses used
    events,      \* what the running sub-test has done so far, in order
    cur,         \* the running tool case: [hs, hsOK, calls]
    cmds,        \* docker commands issued by the last stopContainer call
    chk,         \* assertion harness: [t, tc, r, passed] of the last evaluation
    pol          \* policy-details harness: the request and the handler's progress

vars == <<pc, retpc, proc, failed, build, topCleanups, subCleanups, deferred,
          v, subtestsRun, created, closeCount, containerID, stopArg, live, started,
          stopped, cmdFailed, launch, wfs, hsFailedIn, tbl, cs, ran, firstFail,
          sweep, calls,
                   http, events, cur, cmds, chk, pol>>

dockerVars == <<live, stopped, cmdFailed>>
suiteVars == <<tbl, cs, ran, firstFail, hsFailedIn>>
clientVars == <<created, closeCount>>

\* resp is the status of the last attempt: 0 for a connection error (no
\* response), -1 before the first attempt.
\* open counts the bodies received and not closed by waitForServer, lastCloses
\* the Body.Close calls made on the last attempt's response.
wfs0 == [i |-> 0, gets |-> 0, elapsed |-> 0, resp |-> -1, result |-> "none",
         open |-> 0, lastCloses |-> 0]
sweep0 == [ran |-> FALSE, done |-> FALSE, listOK |-> FALSE, listed |-> {}, before |-> {}]
\* createHTTPClient: the environment read, the locals port, baseURL and mcpURL,
\* and the port mapping, health URL and protocol URL actually used ("" = not yet).
http0 == [env |-> [set |-> FALSE, val |-> ""], port |-> "", baseURL |-> "",
          mcpURL |-> "", mapping |-> "", health |-> "", mcp |-> ""]
\* The running case: handshakes performed, whether the handshake went through,
\* tool invocations.
cur0 == [hs |-> 0, hsOK |-> FALSE, calls |-> 0]
chk0 == [t |-> 0, tc |-> [shouldFail |-> FALSE, ctype |-> "overview"],
         r |-> [err |-> TRUE, isError |-> FALSE, content |-> <<>>, text |-> {}],
         passed |-> FALSE]
\* An error value: nil, or an error with its message.
NilErr == [nil |-> TRUE, msg |-> ""]
\* The policy-details harness: the request's terraform_policy_id argument, the
\* handler's position and locals, the registry calls made, what it returned
\* (result <<>> is the nil result).
pol0 == [step |-> "idle",
         arg |-> [present |-> FALSE, isString |-> FALSE, val |-> ""],
         id |-> "", regCalls |-> 0, reg |-> "none",
         body |-> [valid |-> FALSE, included |-> <<>>],
         result |-> <<>>, err |-> NilErr]

Init ==
    /\ pc = "build"
    /\ retpc = "none"
    /\ proc = "running"
    /\ failed = {}
    /\ build = [count |-> 0, ok |-> FALSE]
    /\ topCleanups = <<>>
    /\ subCleanups = <<>>
    /\ deferred = FALSE
    /\ v = 0
    /\ subtestsRun = {}
    /\ created = {}
    /\ closeCount = [x \in {"Stdio", "HTTP"} |-> 0]
    /\ containerID = ""
    /\ stopArg = ""
    /\ live \in SUBSET PreExisting
    /\ started = {}
    /\ stopped = {}
    /\ cmdFailed = FALSE
    /\ launch = "none"
    /\ wfs = wfs0
    /\ hsFailedIn = {}
    /\ tbl = 0
    /\ cs = 0
    /\ ran = <<>>
    /\ firstFail = <<0, 0>>
    /\ sweep = sweep0
    /\ calls = <<>>
    /\ http = http0
    /\ events = <<>>
    /\ cur = cur0
    /\ cmds = <<>>
    /\ chk = chk0
    /\ pol = pol0

\* The log of the running sub-test: an event is entered when it first happens.
Pos(log, e) == IF \E k \in 1..Len(log) : log[k] = e
               THEN CHOOSE k \in 1..Len(log) : log[k] = e
               ELSE 0
Once(log, e) == IF Pos(log, e) > 0 THEN log ELSE Append(log, e)

Name == Variants[v]

\* t.FailNow() in the running sub-test: it and its parent are marked failed and
\* the sub-test function is left (deferred calls and cleanups follow).
FailNowSub ==
    /\ failed' = failed \cup {Name, "TestE2E"}
    /\ pc' = "sub_exit"

\* ------------------------------------------------------------- TestE2E
\* The build as if its failure were recorded with a non-fatal assertion.
buildDockerImageNonFatal ==
    /\ pc = "build"
    /\ \E ok \in BOOLEAN :
        /\ build' = [count |-> build.count + 1, ok |-> ok]
        /\ failed' = IF ok THEN failed ELSE failed \cup {"TestE2E"}
        /\ pc' = "register_sweep"
    /\ UNCHANGED <<retpc, proc, topCleanups, subCleanups, deferred, v, subtestsRun,
                   clientVars, containerID, stopArg, dockerVars, started, launch,
                   wfs, suiteVars, sweep, calls,
                   http, events, cur, cmds, chk, pol>>

\* buildDockerImage + require.NoError: a failed build is FailNow on TestE2E
\* itself, before anything is registered.
buildDockerImage ==
    /\ pc = "build"
    /\ \E ok \in BOOLEAN :
        /\ build' = [count |-> build.count + 1, ok |-> ok]
        /\ IF ok THEN pc' = "register_sweep" /\ UNCHANGED <<failed, proc>>
           ELSE /\ failed' = failed \cup {"TestE2E"}
                /\ pc' = "done"
                /\ proc' = "exited"
    /\ UNCHANGED <<retpc, topCleanups, subCleanups, deferred, v, subtestsRun,
                   clientVars, containerID, stopArg, dockerVars, started, launch,
                   wfs, suiteVars, sweep, calls,
                   http, events, cur, cmds, chk, pol>>

RegisterSweep ==
    /\ pc = "register_sweep"
    /\ topCleanups' = Append(topCleanups, "cleanupAllTestContainers")
    /\ pc' = "loop"
    /\ UNCHANGED <<retpc, proc, failed, build, subCleanups, deferred, v,
                   subtestsRun, clientVars, containerID, stopArg, dockerVars,
                   started, launch, wfs, suiteVars, sweep, calls,
                   http, events, cur, cmds, chk, pol>>

\* for _, tc := range testCases { t.Run(tc.name, ...) }
RunSubtest ==
    /\ pc = "loop"
    /\ v < Len(Variants)
    /\ v' = v + 1
    /\ subtestsRun' = subtestsRun \cup {Variants[v + 1]}
    /\ subCleanups' = <<>>
    /\ deferred' = FALSE
    /\ tbl' = 0 /\ cs' = 0 /\ ran' = <<>> /\ firstFail' = <<0, 0>>
    /\ pc' = IF Variants[v + 1] = "Stdio" THEN "stdio_factory" ELSE "http_port"
    /\ events' = <<>>
    /\ cur' = cur0
    /\ UNCHANGED <<retpc, proc, failed, build, topCleanups, clientVars,
                   containerID, stopArg, dockerVars, started, launch, wfs,
                   hsFailedIn, sweep, calls,
                   http, cmds, chk, pol>>

\* The loop is over: TestE2E returns and its cleanups run.
LoopDone ==
    /\ pc = "loop"
    /\ v = Len(Variants)
    /\ pc' = "top_cleanup"
    /\ UNCHANGED <<retpc, proc, failed, build, topCleanups, subCleanups,
                   deferred, v, subtestsRun, clientVars, containerID, stopArg,
                   dockerVars, started, launch, wfs, suiteVars, sweep, calls,
                   http, events, cur, cmds, chk, pol>>

\* ------------------------------------------------------ transport factories
\* createStdioClient: NewStdioMCPClient, then require.NoError.
createStdioClient ==
    /\ pc = "stdio_factory"
    /\ \E ok \in BOOLEAN :
        IF ok THEN /\ created' = created \cup {Name}
                   /\ pc' = "defer"
                   /\ UNCHANGED failed
        ELSE FailNowSub /\ UNCHANGED created
    /\ events' = IF Name \in created' THEN Once(events, "client") ELSE events
    /\ UNCHANGED <<retpc, proc, build, topCleanups, subCleanups, deferred, v,
                   subtestsRun, closeCount, containerID, stopArg, dockerVars,
                   started, launch, wfs, suiteVars, sweep, calls,
                   http, cur, cmds, chk, pol>>

\* E2E_TEST_PORT as the process may find it: unset, set to the empty string, or
\* set to a port.  os.Getenv answers "" for an unset variable.
EnvValues == {[set |-> FALSE, val |-> ""], [set |-> TRUE, val |-> ""],
              [set |-> TRUE, val |-> "9191"], [set |-> TRUE, val |-> "18080"]}
Getenv(e) == IF e.set THEN e.val ELSE ""

GetTestPortDefaultOnly(e) == "8080"
\* getTestPort
GetTestPort(e) == IF Getenv(e) # "" THEN Getenv(e) ELSE "8080"

\* The head of createHTTPClient: port, baseURL and mcpURL.
getTestPort ==
    /\ pc = "http_port"
    /\ \E e \in EnvValues :
        http' = [http0 EXCEPT !.env = e,
                              !.port = GetTestPort(e),
                              !.baseURL = "http://localhost:" \o GetTestPort(e),
                              !.mcpURL = "http://localhost:" \o GetTestPort(e) \o "/mcp"]
    /\ pc' = "http_start"
    /\ UNCHANGED <<retpc, proc, failed, build, topCleanups, subCleanups, deferred,
                   v, subtestsRun, clientVars, containerID, stopArg, dockerVars,
                   started, launch, wfs, suiteVars, sweep, calls,
                   events, cur, cmds, chk, pol>>

\* startHTTPContainer: cmd.Output(), require.NoError, then string(output)[:12].
\* Slicing an output shorter than 12 bytes is a run-time panic in the sub-test's
\* goroutine: no deferred call and no cleanup of the sub-test is registered yet,
\* and the panic takes the test binary down (TestE2E's cleanups do not run).
startHTTPContainer ==
    /\ pc = "http_start"
    /\ \E out \in LaunchOutputs :
        IF out.err
        THEN /\ launch' = "execerr"
             /\ FailNowSub
             /\ UNCHANGED <<proc, containerID, live, started>>
        ELSE IF out.len < IdLen
        THEN /\ launch' = "short"
             /\ failed' = failed \cup {Name}
             /\ proc' = "panicked"
             /\ pc' = "done"
             /\ UNCHANGED <<containerID, live, started>>
        ELSE /\ launch' = "ok"
             /\ containerID' = HttpContainer
             /\ live' = live \cup {HttpContainer}
             /\ started' = started \cup {HttpContainer}
             /\ pc' = "http_register"
             /\ UNCHANGED <<failed, proc>>
    /\ http' = [http EXCEPT !.mapping = http.port \o ":8080"]
    /\ events' = IF launch' = "ok" THEN Once(events, "start") ELSE events
    /\ UNCHANGED <<retpc, build, topCleanups, subCleanups, deferred, v,
                   subtestsRun, clientVars, stopArg, stopped, cmdFailed, wfs,
                   suiteVars, sweep, calls,
                   cur, cmds, chk, pol>>

\* createHTTPClient as if it went on to the client without the readiness poll.
RegisterStopNoWait ==
    /\ pc = "http_register"
    /\ subCleanups' = Append(subCleanups, containerID)
    /\ wfs' = wfs0
    /\ pc' = "http_client"
    /\ events' = Once(events, "register")
    /\ UNCHANGED <<retpc, proc, failed, build, topCleanups, deferred, v,
                   subtestsRun, clientVars, containerID, stopArg, dockerVars,
                   started, launch, suiteVars, sweep, calls,
                   http, cur, cmds, chk, pol>>

\* createHTTPClient as if the stop were registered only after the poll, which
\* a timed-out poll never reaches.
RegisterStopNotRegistered ==
    /\ pc = "http_register"
    /\ subCleanups' = subCleanups
    /\ wfs' = wfs0
    /\ pc' = "http_wait"
    /\ events' = Once(events, "register")
    /\ UNCHANGED <<retpc, proc, failed, build, topCleanups, deferred, v,
                   subtestsRun, clientVars, containerID, stopArg, dockerVars,
                   started, launch, suiteVars, sweep, calls,
                   http, cur, cmds, chk, pol>>

\* t.Cleanup(func() { stopContainer(t, containerID) })
RegisterStop ==
    /\ pc = "http_register"
    /\ subCleanups' = Append(subCleanups, containerID)
    /\ wfs' = wfs0
    /\ pc' = "http_wait"
    /\ events' = Once(events, "register")
    /\ UNCHANGED <<retpc, proc, failed, build, topCleanups, deferred, v,
                   subtestsRun, clientVars, containerID, stopArg, dockerVars,
                   started, launch, suiteVars, sweep, calls,
                   http, cur, cmds, chk, pol>>

\* ------------------------------------------------------------ waitForServer
\* What client.Get can return: a connection error (resp is nil) or a response
\* with a status.
\* An error comes with no response (status 0) or, when a redirect is refused,
\* with the response that was refused.
HealthResponses ==
    {[err |-> TRUE, status |-> s] : s \in {0, 302}} \cup
    {[err |-> FALSE, status |-> s] : s \in {200, 204, 503}}

\* resp != nil
HasResponse(r) == r.status # 0

BodyClosesOnReadyOnly(r) == IF ~r.err /\ r.status = 200 THEN 1 ELSE 0
\* The resp.Body.Close() calls of one pass: before the return of a ready
\* attempt, and under "if resp != nil" otherwise.
BodyCloses(r) ==
    IF ~r.err /\ r.status = 200 THEN 1
    ELSE IF HasResponse(r) THEN 1 ELSE 0

ReadyAny2xx(r) == ~r.err /\ r.status \div 100 = 2
\* err == nil && resp.StatusCode == 200
Ready(r) == ~r.err /\ r.status = 200

WfsAfterAttemptSleepFirst(w, r) ==
    [i |-> w.i + 1,
     gets |-> w.gets + 1,
     elapsed |-> w.elapsed + interval,
     resp |-> r.status,
     result |-> IF Ready(r) THEN "ready" ELSE "none",
     open |-> w.open + (IF HasResponse(r) THEN 1 ELSE 0) - BodyCloses(r),
     lastCloses |-> BodyCloses(r)]
\* One pass of the loop body with response r: return on ready, else sleep.
WfsAfterAttempt(w, r) ==
    IF Ready(r)
    THEN [w EXCEPT !.gets = @ + 1,
                   !.resp = r.status,
                   !.open = @ + (IF HasResponse(r) THEN 1 ELSE 0) - BodyCloses(r),
                   !.lastCloses = BodyCloses(r),
                   !.result = "ready"]
    ELSE [w EXCEPT !.gets = @ + 1,
                   !.resp = r.status,
                   !.open = @ + (IF HasResponse(r) THEN 1 ELSE 0) - BodyCloses(r),
                   !.lastCloses = BodyCloses(r),
                   !.elapsed = @ + interval,
                   !.i = @ + 1]

\* i < 30
WfsLoop(w) == w.i < maxAttempts

waitForServerAttempt ==
    /\ pc = "http_wait"
    /\ WfsLoop(wfs)
    /\ wfs.result = "none"
    /\ \E r \in HealthResponses : wfs' = WfsAfterAttempt(wfs, r)
    /\ http' = [http EXCEPT !.health = http.baseURL \o "/health"]
    /\ events' = IF wfs'.result = "ready" THEN Once(Once(events, "poll"), "ready")
                 ELSE Once(events, "poll")
    /\ UNCHANGED <<pc, retpc, proc, failed, build, topCleanups, subCleanups,
                   deferred, v, subtestsRun, clientVars, containerID, stopArg,
                   dockerVars, started, launch, suiteVars, sweep, calls,
                   cur, cmds, chk, pol>>

\* The loop ran out: t.Fatal("HTTP server failed to start within 30 seconds").
waitForServerTimeout ==
    /\ pc = "http_wait"
    /\ wfs.result = "none"
    /\ ~WfsLoop(wfs)
    /\ wfs' = [wfs EXCEPT !.result = "fatal"]
    /\ events' = Once(events, "timeout")
    /\ UNCHANGED <<pc, retpc, proc, failed, build, topCleanups, subCleanups,
                   deferred, v, subtestsRun, clientVars, containerID, stopArg,
                   dockerVars, started, launch, suiteVars, sweep, calls,
                   http, cur, cmds, chk, pol>>

\* waitForServer is left, by its return or by the FailNow of t.Fatal; its
\* locals are gone.
waitForServerExit ==
    /\ pc = "http_wait"
    /\ wfs.result # "none"
    /\ wfs' = wfs0
    /\ IF wfs.result = "ready" THEN pc' = "http_client" /\ UNCHANGED failed
       ELSE FailNowSub
    /\ UNCHANGED <<retpc, proc, build, topCleanups, subCleanups, deferred, v,
                   subtestsRun, clientVars, containerID, stopArg, dockerVars,
                   started, launch, suiteVars, sweep, calls,
                   http, events, cur, cmds, chk, pol>>

\* NewStreamableHttpClient, require.NoError, and the return of the pair.
createHTTPClient ==
    /\ pc = "http_client"
    /\ \E ok \in BOOLEAN :
        IF ok THEN /\ created' = created \cup {Name}
                   /\ pc' = "defer"
                   /\ UNCHANGED failed
        ELSE FailNowSub /\ UNCHANGED created
    /\ http' = [http EXCEPT !.mcp = http.mcpURL]
    /\ events' = IF Name \in created' THEN Once(events, "client") ELSE events
    /\ UNCHANGED <<retpc, proc, build, topCleanups, subCleanups, deferred, v,
                   subtestsRun, closeCount, containerID, stopArg, dockerVars,
                   started, launch, wfs, suiteVars, sweep, calls,
                   cur, cmds, chk, pol>>

\* defer cleanup(); the factory has returned and its locals are gone.
DeferCleanup ==
    /\ pc = "defer"
    /\ deferred' = TRUE
    /\ pc' = "suite_init"
    /\ http' = http0
    /\ UNCHANGED <<retpc, proc, failed, build, topCleanups, subCleanups, v,
                   subtestsRun, clientVars, containerID, stopArg, dockerVars,
                   started, launch, wfs, suiteVars, sweep, calls,
                   events, cur, cmds, chk, pol>>

\* ------------------------------------------------------------ runTestSuite
\* What client.Initialize can return: an error, or a result carrying the
\* server's name (right or wrong).
InitializeResults == {"error", "terraform-mcp-server", "other-server"}

\* log.Fatalf in the Initialize sub-test: os.Exit(1).  The process is gone at
\* once; no deferred call and no t.Cleanup of any test runs.
LogFatalf ==
    /\ proc' = "osexit"
    /\ pc' = "done"

FirstCase ==
    /\ tbl' = 1
    /\ cs' = 1
    /\ pc' = "case_hs"

\* t.Run("Initialize", ...) of runTestSuite.
SuiteInitialize ==
    /\ pc = "suite_init"
    /\ \E res \in InitializeResults :
        IF res = "error"
        THEN /\ hsFailedIn' = hsFailedIn \cup {"Initialize"}
             /\ LogFatalf
             /\ UNCHANGED <<failed, tbl, cs>>
        ELSE /\ failed' = IF res = "terraform-mcp-server" THEN failed
                          ELSE failed \cup {Name, "TestE2E"}
             /\ FirstCase
             /\ UNCHANGED <<proc, hsFailedIn>>
    /\ events' = Once(events, "request")
    /\ UNCHANGED <<retpc, build, topCleanups, subCleanups, deferred, v,
                   subtestsRun, clientVars, containerID, stopArg, dockerVars,
                   started, launch, wfs, ran, firstFail, sweep, calls,
                   http, cur, cmds, chk, pol>>

\* The tool-call results the client can hand back: an error with no response,
\* or a response with its error flag, its content items and, as far as the
\* assertions read it, the markers its first text contains.
Markers == {"Category: data-sources", "Category: resources", "guide", "functions",
            "page_title", "**Category:** resources", "**Category:** data-sources"}
Texts == {{}} \cup {{m} : m \in Markers}
Contents == {<<>>} \cup {<<a>> : a \in {"text", "image"}}
            \cup {<<a, b>> : a \in {"text", "image"}, b \in {"text", "image"}}
ToolResponses ==
    {[err |-> TRUE, isError |-> FALSE, content |-> <<>>, text |-> {}]} \cup
    {r \in [err : {FALSE}, isError : BOOLEAN, content : Contents, text : Texts] :
        (r.content = <<>> \/ r.content[1] # "text") => r.text = {}}

\* A test case as far as the assertions read it: TestShouldFail, TestContentType.
ContentTypes == {"data-sources", "resources", "guides", "functions", "overview"}
TestCases == [shouldFail : BOOLEAN, ctype : ContentTypes]

\* The require.* chain as if the length of the content were not asserted.
OneTextItemAnyLength(r) ==
    /\ ~r.err
    /\ ~r.isError
    /\ Len(r.content) >= 1
    /\ r.content[1] = "text"

\* The require.* chain shared by three of the tables (lines 115-120).
OneTextItem(r) ==
    /\ ~r.err
    /\ ~r.isError
    /\ Len(r.content) = 1
    /\ r.content[1] = "text"

PassResolveProviderDocID(tc, r) ==
    IF tc.shouldFail THEN r.err
    ELSE /\ OneTextItem(r)
         /\ tc.ctype = "data-sources" => "Category: data-sources" \in r.text
         /\ tc.ctype = "resources" => "Category: resources" \in r.text
         /\ tc.ctype = "guides" => "guide" \in r.text
         /\ tc.ctype = "functions" => "functions" \in r.text

PassGetProviderDocs(tc, r) ==
    IF tc.shouldFail THEN r.err
    ELSE OneTextItem(r) /\ "page_title" \in r.text

\* searchModules as if it asserted one text item like the other tables.
PassSearchModulesOneItem(tc, r) ==
    IF tc.shouldFail THEN r.err
    ELSE /\ ~r.err
         /\ ~r.isError
         /\ Len(r.content) = 1
         /\ r.content[1] = "text"

PassSearchModules(tc, r) ==
    IF tc.shouldFail THEN r.err
    ELSE /\ ~r.err
         /\ ~r.isError
         /\ Len(r.content) > 0 => r.content[1] = "text"

PassModuleDetails(tc, r) ==
    IF tc.shouldFail THEN r.err
    ELSE /\ OneTextItem(r)
         /\ tc.ctype = "data-sources" => "**Category:** resources" \notin r.text
         /\ tc.ctype = "resources" => "**Category:** data-sources" \notin r.text

Pass(t, tc, r) ==
    CASE Tables[t] = "resolveProviderDocID" -> PassResolveProviderDocID(tc, r)
      [] Tables[t] = "getProviderDocs" -> PassGetProviderDocs(tc, r)
      [] Tables[t] = "searchModules" -> PassSearchModules(tc, r)
      [] Tables[t] = "moduleDetails" -> PassModuleDetails(tc, r)

\* The end of a case's sub-test, as if a failed require.* had been called on
\* the enclosing test: the first failure ends the whole suite.
CaseDoneAbortsSuite(passed) ==
    /\ failed' = IF passed THEN failed ELSE failed \cup {Name, "TestE2E"}
    /\ firstFail' = IF ~passed /\ firstFail = <<0, 0>> THEN <<tbl, cs>> ELSE firstFail
    /\ IF ~passed THEN pc' = "sub_exit" /\ UNCHANGED <<tbl, cs>>
       ELSE IF cs < NumCases THEN cs' = cs + 1 /\ pc' = "case_hs" /\ UNCHANGED tbl
       ELSE IF tbl < Len(Tables) THEN tbl' = tbl + 1 /\ cs' = 1 /\ pc' = "case_hs"
       ELSE pc' = "sub_exit" /\ UNCHANGED <<tbl, cs>>

\* The end of a case's sub-test (pass, or FailNow inside it): a failure marks
\* the case and its ancestors failed and t.Run returns to the range loop, which
\* goes on with the next case, the next table, or the return of runTestSuite.
CaseDone(passed) ==
    /\ failed' = IF passed THEN failed ELSE failed \cup {Name, "TestE2E"}
    /\ firstFail' = IF ~passed /\ firstFail = <<0, 0>> THEN <<tbl, cs>> ELSE firstFail
    /\ IF cs < NumCases THEN cs' = cs + 1 /\ pc' = "case_hs" /\ UNCHANGED tbl
       ELSE IF tbl < Len(Tables) THEN tbl' = tbl + 1 /\ cs' = 1 /\ pc' = "case_hs"
       ELSE pc' = "sub_exit" /\ UNCHANGED <<tbl, cs>>

\* ensureClientInitialized at the head of every case: t.Fatalf on an error,
\* require.Equal on the server name.
HandshakeOKIgnoresName(res) == res # "error"
\* ensureClientInitialized goes on to the tool call: no error (t.Fatalf) and
\* the expected server name (require.Equal).
HandshakeOK(res) == res = "terraform-mcp-server"

ensureClientInitialized ==
    /\ pc = "case_hs"
    /\ ran' = Append(ran, <<tbl, cs>>)
    /\ \E res \in InitializeResults :
        /\ cur' = [hs |-> cur0.hs + 1,
                   hsOK |-> res = "terraform-mcp-server",
                   calls |-> cur0.calls]
        /\ IF HandshakeOK(res)
           THEN pc' = "case_call" /\ UNCHANGED <<failed, firstFail, tbl, cs, hsFailedIn>>
           ELSE /\ hsFailedIn' = IF res = "error" THEN hsFailedIn \cup {"case"}
                                 ELSE hsFailedIn
                /\ CaseDone(FALSE)
    /\ events' = Once(events, "request")
    /\ UNCHANGED <<retpc, proc, build, topCleanups, subCleanups, deferred, v,
                   subtestsRun, clientVars, containerID, stopArg, dockerVars,
                   started, launch, wfs, sweep, calls,
                   http, cmds, chk, pol>>

\* client.CallTool and the assertions on its result.
CallTool ==
    /\ pc = "case_call"
    /\ \E tc \in TestCases, r \in ToolResponses : CaseDone(Pass(tbl, tc, r))
    /\ events' = Once(events, "tool")
    /\ cur' = [cur EXCEPT !.calls = @ + 1]
    /\ UNCHANGED <<retpc, proc, build, topCleanups, subCleanups, deferred, v,
                   subtestsRun, clientVars, containerID, stopArg, dockerVars,
                   started, launch, wfs, ran, hsFailedIn, sweep, calls,
                   http, cmds, chk, pol>>

\* ------------------------------------------------- leaving a sub-test
\* The deferred cleanup() of the sub-test function: client.Close().  It runs
\* when the function returns and when FailNow leaves it, if the defer statement
\* was reached.
RunDeferred ==
    /\ pc = "sub_exit"
    /\ closeCount' = IF deferred THEN [closeCount EXCEPT ![Name] = @ + 1]
                     ELSE closeCount
    /\ deferred' = FALSE
    /\ pc' = "sub_cleanup"
    /\ http' = http0
    /\ events' = IF deferred THEN Once(events, "close") ELSE events
    /\ UNCHANGED <<retpc, proc, failed, build, topCleanups, subCleanups, v,
                   subtestsRun, created, containerID, stopArg, dockerVars, started,
                   launch, wfs, suiteVars, sweep, calls,
                   cur, cmds, chk, pol>>

\* The sub-test's t.Cleanup functions, last registered first.
RunSubCleanup ==
    /\ pc = "sub_cleanup"
    /\ subCleanups # <<>>
    /\ stopArg' = subCleanups[Len(subCleanups)]
    /\ subCleanups' = SubSeq(subCleanups, 1, Len(subCleanups) - 1)
    /\ retpc' = "sub_cleanup"
    /\ pc' = "stop_entry"
    /\ events' = Once(events, "stopContainer")
    /\ UNCHANGED <<proc, failed, build, topCleanups, deferred, v, subtestsRun,
                   clientVars, containerID, dockerVars, started, launch, wfs,
                   suiteVars, sweep, calls,
                   http, cur, cmds, chk, pol>>

\* The sub-test is done; t.Run returns to the loop of TestE2E.
SubtestDone ==
    /\ pc = "sub_cleanup"
    /\ subCleanups = <<>>
    /\ pc' = "loop"
    /\ UNCHANGED <<retpc, proc, failed, build, topCleanups, subCleanups,
                   deferred, v, subtestsRun, clientVars, containerID, stopArg,
                   dockerVars, started, launch, wfs, suiteVars, sweep, calls,
                   http, events, cur, cmds, chk, pol>>

\* The t.Cleanup functions of TestE2E.
RunTopCleanup ==
    /\ pc = "top_cleanup"
    /\ topCleanups # <<>>
    /\ topCleanups' = SubSeq(topCleanups, 1, Len(topCleanups) - 1)
    /\ retpc' = "top_cleanup"
    /\ pc' = "sweep_list"
    /\ UNCHANGED <<proc, failed, build, subCleanups, deferred, v, subtestsRun,
                   clientVars, containerID, stopArg, dockerVars, started, launch,
                   wfs, suiteVars, sweep, calls,
                   http, events, cur, cmds, chk, pol>>

\* The test binary exits.
ProcessExit ==
    /\ pc = "top_cleanup"
    /\ topCleanups = <<>>
    /\ proc' = "exited"
    /\ pc' = "done"
    /\ UNCHANGED <<retpc, failed, build, topCleanups, subCleanups, deferred,
                   v, subtestsRun, clientVars, containerID, stopArg, dockerVars,
                   started, launch, wfs, suiteVars, sweep, calls,
                   http, events, cur, cmds, chk, pol>>

\* ------------------------------------------------------------ stopContainer
WarnFails(f) == f \cup {"TestE2E"}
\* t.Logf("Warning: ..."): a log line; the test's status is left alone.
Warn(f) == f

\* exec.Command("docker", "stop", containerID)
StopCmd(id) == [args |-> {id}, stdin |-> {}]
\* exec.Command("docker", "kill", containerID)
KillCmd(id) == [args |-> {id}, stdin |-> {}]

\* The guard and the graceful stop.
NeedsKillAlways(stopOK) == TRUE
\* if err := cmd.Run(); err != nil: the kill is tried when the stop failed.
NeedsKill(stopOK) == ~stopOK

stopContainerStop ==
    /\ pc = "stop_entry"
    /\ IF stopArg = ""
       THEN pc' = retpc /\ cmds' = <<>> /\ UNCHANGED <<failed, dockerVars>>
       ELSE \E ok \in BOOLEAN :
            /\ live' = live \ DockerStops(StopCmd(stopArg), ok, live)
            /\ stopped' = stopped \cup DockerStops(StopCmd(stopArg), ok, live)
            /\ cmds' = <<[cmd |-> "stop", id |-> stopArg,
                          ok |-> DockerExitOK(StopCmd(stopArg), ok, live)]>>
            /\ IF ~NeedsKill(DockerExitOK(StopCmd(stopArg), ok, live))
               THEN pc' = retpc /\ UNCHANGED <<failed, cmdFailed>>
               ELSE /\ failed' = Warn(failed)
                    /\ cmdFailed' = TRUE
                    /\ pc' = "stop_kill"
    /\ UNCHANGED <<retpc, proc, build, topCleanups, subCleanups, deferred, v,
                   subtestsRun, clientVars, containerID, stopArg, started, launch,
                   wfs, suiteVars, sweep, calls,
                   http, events, cur, chk, pol>>

\* The force-kill after a failed stop.
stopContainerKill ==
    /\ pc = "stop_kill"
    /\ \E ok \in BOOLEAN :
        /\ live' = live \ DockerStops(KillCmd(stopArg), ok, live)
        /\ stopped' = stopped \cup DockerStops(KillCmd(stopArg), ok, live)
        /\ cmds' = Append(cmds, [cmd |-> "kill", id |-> stopArg,
                                  ok |-> DockerExitOK(KillCmd(stopArg), ok, live)])
        /\ IF DockerExitOK(KillCmd(stopArg), ok, live)
           THEN UNCHANGED <<failed, cmdFailed>>
           ELSE failed' = Warn(failed) /\ cmdFailed' = TRUE
    /\ pc' = retpc
    /\ UNCHANGED <<retpc, proc, build, topCleanups, subCleanups, deferred, v,
                   subtestsRun, clientVars, containerID, stopArg, started, launch,
                   wfs, suiteVars, sweep, calls,
                   http, events, cur, chk, pol>>

\* ------------------------------------------------ cleanupAllTestContainers
\* exec.Command("docker", "stop") with stopCmd.Stdin = the listed identifiers:
\* the identifiers are on standard input, the argument list is empty.
SweepStopCmd(ids) == [args |-> {}, stdin |-> ids]

\* docker ps -q --filter ancestor=...; a failed listing and an empty listing
\* both return.
cleanupAllTestContainersList ==
    /\ pc = "sweep_list"
    /\ \E ok \in BOOLEAN :
        IF ~ok
        THEN /\ sweep' = [sweep0 EXCEPT !.ran = TRUE, !.done = TRUE, !.before = live]
             /\ failed' = Warn(failed)
             /\ cmdFailed' = TRUE
             /\ pc' = retpc
        ELSE /\ sweep' = [ran |-> TRUE,
                          done |-> DockerPs(TestImage, live) = {},
                          listOK |-> TRUE,
                          listed |-> DockerPs(TestImage, live),
                          before |-> live]
             /\ pc' = IF DockerPs(TestImage, live) = {} THEN retpc ELSE "sweep_stop"
             /\ UNCHANGED <<failed, cmdFailed>>
    /\ UNCHANGED <<retpc, proc, build, topCleanups, subCleanups, deferred, v,
                   subtestsRun, clientVars, containerID, stopArg, live, stopped,
                   started, launch, wfs, suiteVars, calls,
                   http, events, cur, cmds, chk, pol>>

\* The batch stop.
cleanupAllTestContainersStop ==
    /\ pc = "sweep_stop"
    /\ \E ok \in BOOLEAN :
        /\ live' = live \ DockerStops(SweepStopCmd(sweep.listed), ok, live)
        /\ stopped' = stopped \cup DockerStops(SweepStopCmd(sweep.listed), ok, live)
        /\ IF DockerExitOK(SweepStopCmd(sweep.listed), ok, live)
           THEN UNCHANGED <<failed, cmdFailed>>
           ELSE failed' = Warn(failed) /\ cmdFailed' = TRUE
    /\ sweep' = [sweep EXCEPT !.done = TRUE]
    /\ pc' = retpc
    /\ UNCHANGED <<retpc, proc, build, topCleanups, subCleanups, deferred, v,
                   subtestsRun, clientVars, containerID, stopArg, started, launch,
                   wfs, suiteVars, calls,
                   http, events, cur, cmds, chk, pol>>

\* ------------------------------------------------------- the specification
Next ==
    \/ buildDockerImage
    \/ RegisterSweep
    \/ RunSubtest
    \/ LoopDone
    \/ createStdioClient
    \/ getTestPort
    \/ startHTTPContainer
    \/ RegisterStop
    \/ waitForServerAttempt
    \/ waitForServerTimeout
    \/ waitForServerExit
    \/ createHTTPClient
    \/ DeferCleanup
    \/ SuiteInitialize
    \/ ensureClientInitialized
    \/ CallTool
    \/ RunDeferred
    \/ RunSubCleanup
    \/ SubtestDone
    \/ RunTopCleanup
    \/ ProcessExit
    \/ stopContainerStop
    \/ stopContainerKill
    \/ cleanupAllTestContainersList
    \/ cleanupAllTestContainersStop

Spec == Init /\ [][Next]_vars

\* ------------------------------------------------- the cleanup harness
\* stopContainer and cleanupAllTestContainers called directly, in any order and
\* on any handle, against any set of running containers.
HarnessIds == {"", HttpContainer}

InitCleanup ==
    /\ pc = "harness"
    /\ retpc = "harness"
    /\ proc = "running"
    /\ failed = {}
    /\ build = [count |-> 1, ok |-> TRUE]
    /\ topCleanups = <<>>
    /\ subCleanups = <<>>
    /\ deferred = FALSE
    /\ v = 0
    /\ subtestsRun = {}
    /\ created = {}
    /\ closeCount = [x \in {"Stdio", "HTTP"} |-> 0]
    /\ containerID = ""
    /\ stopArg = ""
    /\ live \in SUBSET (PreExisting \cup {HttpContainer})
    /\ started = live \cap {HttpContainer}
    /\ stopped = {}
    /\ cmdFailed = FALSE
    /\ launch = "none"
    /\ wfs = wfs0
    /\ hsFailedIn = {}
    /\ tbl = 0
    /\ cs = 0
    /\ ran = <<>>
    /\ firstFail = <<0, 0>>
    /\ sweep = sweep0
    /\ calls = <<>>
    /\ http = http0
    /\ events = <<>>
    /\ cur = cur0
    /\ cmds = <<>>
    /\ chk = chk0
    /\ pol = pol0

HarnessStop ==
    /\ pc = "harness"
    /\ Len(calls) < MaxCalls
    /\ \E id \in HarnessIds :
        /\ stopArg' = id
        /\ calls' = Append(calls, <<"stopContainer", id>>)
    /\ pc' = "stop_entry"
    /\ UNCHANGED <<retpc, proc, failed, build, topCleanups, subCleanups, deferred,
                   v, subtestsRun, clientVars, containerID, dockerVars, started,
                   launch, wfs, suiteVars, sweep,
                   http, events, cur, cmds, chk, pol>>

HarnessSweep ==
    /\ pc = "harness"
    /\ Len(calls) < MaxCalls
    /\ calls' = Append(calls, <<"cleanupAllTestContainers", "">>)
    /\ pc' = "sweep_list"
    /\ UNCHANGED <<retpc, proc, failed, build, topCleanups, subCleanups, deferred,
                   v, subtestsRun, clientVars, containerID, stopArg, dockerVars,
                   started, launch, wfs, suiteVars, sweep,
                   http, events, cur, cmds, chk, pol>>

NextCleanup ==
    \/ HarnessStop
    \/ HarnessSweep
    \/ stopContainerStop
    \/ stopContainerKill
    \/ cleanupAllTestContainersList
    \/ cleanupAllTestContainersStop

SpecCleanup == InitCleanup /\ [][NextCleanup]_vars

\* ---------------------------------------------------- the assertion harness
\* The assertions of one tool case applied to any test case of any table and
\* any result of client.CallTool.
InitAssert ==
    /\ pc = "assert"
    /\ retpc = "none"
    /\ proc = "running"
    /\ failed = {}
    /\ build = [count |-> 1, ok |-> TRUE]
    /\ topCleanups = <<>>
    /\ subCleanups = <<>>
    /\ deferred = FALSE
    /\ v = 0
    /\ subtestsRun = {}
    /\ created = {}
    /\ closeCount = [x \in {"Stdio", "HTTP"} |-> 0]
    /\ containerID = ""
    /\ stopArg = ""
    /\ live = {}
    /\ started = {}
    /\ stopped = {}
    /\ cmdFailed = FALSE
    /\ launch = "none"
    /\ wfs = wfs0
    /\ hsFailedIn = {}
    /\ tbl = 0
    /\ cs = 0
    /\ ran = <<>>
    /\ firstFail = <<0, 0>>
    /\ sweep = sweep0
    /\ calls = <<>>
    /\ http = http0
    /\ events = <<>>
    /\ cur = cur0
    /\ cmds = <<>>
    /\ chk = chk0
    /\ pol = pol0

AssertCase ==
    /\ pc = "assert"
    /\ chk = chk0
    /\ \E t \in 1..Len(Tables), tc \in TestCases, r \in ToolResponses :
        chk' = [t |-> t, tc |-> tc, r |-> r, passed |-> Pass(t, tc, r)]
    /\ UNCHANGED <<pc, retpc, proc, failed, build, topCleanups, subCleanups,
                   deferred, v, subtestsRun, clientVars, containerID, stopArg,
                   dockerVars, started, launch, wfs, suiteVars, sweep, calls,
                   http, events, cur, cmds, pol>>

NextAssert == AssertCase

SpecAssert == InitAssert /\ [][NextAssert]_vars

\* ------------------------------------------------------------ the claims
Min(a, b) == IF a < b THEN a ELSE b
TestImageContainers == {c \in PreExisting \cup {HttpContainer} : Image(c) = TestImage}
AllCases ==
    [k \in 1..(Len(Tables) * NumCases) |->
        <<((k - 1) \div NumCases) + 1, ((k - 1) % NumCases) + 1>>]
Ended == proc # "running"

\* C1 (as claimed): when the test process has ended, on whatever path, every
\* container started by startHTTPContainer has had a stop or kill succeed on it.
\* Stated for the runs in which no docker command of the harness failed, so
\* that a violation is the harness's doing and not the container runtime's.
C1_StartedAreStopped ==
    (Ended /\ ~cmdFailed) => started \subseteq stopped

\* C2 (as claimed): a run in which client.Initialize returned an error, in the
\* Initialize step or in a case's re-handshake, and which ended without a
\* panic, has started both transport variants, has run every registered
\* per-variant cleanup and deferred release, and has run the end-of-suite sweep.
C2_HandshakeFailureIsLocal ==
    (proc \in {"exited", "osexit"} /\ hsFailedIn # {}) =>
        /\ proc = "exited"
        /\ subtestsRun = {"Stdio", "HTTP"}
        /\ subCleanups = <<>>
        /\ ~deferred
        /\ sweep.ran

\* C3 (as claimed): when the launch command could not be executed, or exited 0
\* with fewer than 12 bytes of output, only the HTTP sub-test fails: the run
\* ends by the normal exit of the test binary, after the end-of-suite sweep.
C3_LaunchFailureIsLocal ==
    (Ended /\ launch \in {"execerr", "short"}) =>
        /\ proc = "exited"
        /\ "HTTP" \in failed
        /\ sweep.ran

\* C4 (as claimed): no client is closed twice or closed without having been
\* returned by a factory, and when the process has ended every client a
\* factory returned has been closed exactly once.
C4_ClientClosedExactlyOnce ==
    /\ \A x \in {"Stdio", "HTTP"} :
        /\ closeCount[x] <= 1
        /\ closeCount[x] > 0 => x \in created
    /\ Ended => \A x \in created : closeCount[x] = 1

\* C5 (as claimed): after a sweep whose listing succeeded and was not empty,
\* every container of the test image that was running has been stopped, and
\* every container of another image that was running still runs.
C5_SweepStopsTestImage ==
    (sweep.done /\ sweep.listOK /\ sweep.listed # {}) =>
        /\ sweep.before \cap TestImageContainers \subseteq stopped
        /\ live \cap TestImageContainers = {}
        /\ sweep.before \ TestImageContainers \subseteq live

\* C6: stopContainer and cleanupAllTestContainers, whatever the stop, kill,
\* listing and batch-stop commands return and however often they are called
\* (twice on the same handle included), mark no test failed, end no test and
\* no process, and go on to their return.
C6_CleanupNeverFails ==
    /\ failed = {}
    /\ proc = "running"
    /\ pc \in {"harness", "stop_entry", "stop_kill", "sweep_list", "sweep_stop"}
    /\ retpc = "harness"

\* stopContainer has been called twice on the same handle and has returned
\* both times, the second call finding the container gone.
C6_Witness ==
    /\ pc = "harness"
    /\ calls = <<<<"stopContainer", HttpContainer>>, <<"stopContainer", HttpContainer>>>>
    /\ HttpContainer \in stopped
    /\ cmdFailed

\* C7: the image build is invoked at most once, and exactly once before any
\* sub-test starts, any container is launched or any client is created; a
\* failed build ends the run with no sub-test started, no container launched
\* and no client created.
C7_BuildOnceAndFatal ==
    /\ build.count <= 1
    /\ pc # "build" => build.count = 1
    /\ (subtestsRun # {} \/ launch # "none" \/ started # {} \/ created # {}) =>
           build.count = 1 /\ build.ok
    /\ (build.count = 1 /\ ~build.ok) =>
           /\ proc = "exited"
           /\ "TestE2E" \in failed
           /\ subtestsRun = {}
           /\ launch = "none"
           /\ started = {}
           /\ created = {}
           /\ v = 0

C7_Witness ==
    build.count = 1 /\ ~build.ok /\ proc = "exited"

\* C8 (as claimed): waitForServer returns when interval * min(k, maxAttempts)
\* has elapsed, k the index of the first successful attempt, and fails when
\* maxAttempts * interval has elapsed.
C8_ElapsedAsClaimed ==
    /\ wfs.result = "ready" => wfs.elapsed = interval * Min(wfs.gets, maxAttempts)
    /\ wfs.result = "fatal" => wfs.elapsed = maxAttempts * interval

\* C8 (amended): waitForServer returns when interval * (k - 1) has elapsed, k
\* the index of the first successful attempt, k <= maxAttempts: the first
\* attempt is made at once and a sleep follows each failed attempt only.  With
\* no successful attempt it fails when maxAttempts * interval has elapsed, not
\* sooner and not later.
C8_Elapsed ==
    /\ wfs.result = "ready" =>
           wfs.elapsed = interval * (wfs.gets - 1) /\ wfs.gets <= maxAttempts
    /\ wfs.result = "fatal" =>
           wfs.elapsed = maxAttempts * interval /\ wfs.gets = maxAttempts
    /\ wfs.result = "none" => wfs.elapsed = interval * wfs.gets
    /\ wfs.elapsed <= maxAttempts * interval

\* The third attempt is the first to succeed.
C8_Witness ==
    wfs.result = "ready" /\ wfs.gets = 3 /\ wfs.elapsed = 2 * interval

\* C9: waitForServer makes at most 30 attempts; it returns at the first
\* attempt answered with status 200, every attempt before it having been
\* not-ready, and makes none after it; an attempt with any other status or a
\* connection error is not-ready; it is fatal exactly when all 30 attempts
\* were not-ready.
C9_PollerOutcome ==
    /\ wfs.gets <= maxAttempts
    /\ wfs.result = "ready" => wfs.resp = 200 /\ wfs.gets = wfs.i + 1
    /\ wfs.result = "none" => wfs.gets = wfs.i /\ wfs.resp # 200
    /\ wfs.result = "ready" => wfs.i < maxAttempts /\ ~ENABLED waitForServerAttempt
    /\ wfs.result = "fatal" =>
           wfs.i = maxAttempts /\ wfs.gets = maxAttempts /\ wfs.resp # 200
    /\ (pc = "http_wait" /\ wfs.result = "none" /\ wfs.i = maxAttempts) =>
           ENABLED waitForServerTimeout /\ ~ENABLED waitForServerAttempt
    /\ (pc = "http_wait" /\ wfs.result = "none" /\ wfs.i < maxAttempts) =>
           ~ENABLED waitForServerTimeout

\* All 30 attempts were not-ready, the last one with a 2xx status other than 200.
C9_Witness ==
    wfs.result = "fatal" /\ wfs.resp = 204

\* C10: a failed tool case does not end its table or the suite: the cases run
\* in the fixed order of the tables, and once the suite has entered the tables
\* it leaves them only after every case of every table has been executed.
C10_FailureDoesNotAbort ==
    /\ Len(ran) <= Len(AllCases)
    /\ \A k \in 1..Len(ran) : ran[k] = AllCases[k]
    /\ pc = "case_call" => ran[Len(ran)] = <<tbl, cs>>
    /\ (tbl > 0 /\ pc \notin {"case_hs", "case_call"}) =>
           ran = AllCases

\* The first case of the first table failed and every case was executed.
C10_Witness ==
    /\ firstFail = <<1, 1>>
    /\ pc = "sub_exit"
    /\ ran = AllCases
    /\ v = 2

\* C11: in the tables resolveProviderDocID, getProviderDocs and moduleDetails
\* a case flagged expected-failure passes exactly when the call returned an
\* error, whatever the response; a case flagged expected-success passes only
\* if the call returned no error, the response's error flag is not set, and
\* the content is exactly one item, of textual kind.
C11_OneItemTables ==
    (chk.t > 0 /\ Tables[chk.t] # "searchModules") =>
        /\ chk.tc.shouldFail => (chk.passed <=> chk.r.err)
        /\ (~chk.tc.shouldFail /\ chk.passed) =>
               /\ ~chk.r.err
               /\ ~chk.r.isError
               /\ Len(chk.r.content) = 1
               /\ chk.r.content[1] = "text"

\* An expected-success case of moduleDetails has passed.
C11_Witness ==
    /\ chk.t > 0
    /\ Tables[chk.t] = "moduleDetails"
    /\ ~chk.tc.shouldFail
    /\ chk.passed

\* C12 (as claimed): an expected-success case of searchModules passes only if
\* the call returned no error, the error flag is not set and every content
\* item is of textual kind; an empty content passes.
C12_EveryItemTextual ==
    (chk.t > 0 /\ Tables[chk.t] = "searchModules" /\ ~chk.tc.shouldFail) =>
        /\ chk.passed =>
               /\ ~chk.r.err
               /\ ~chk.r.isError
               /\ \A k \in 1..Len(chk.r.content) : chk.r.content[k] = "text"
        /\ (~chk.r.err /\ ~chk.r.isError /\ chk.r.content = <<>>) => chk.passed

\* C12 (amended): an expected-success case of searchModules passes only if the
\* call returned no error, the error flag is not set and the first content
\* item, when there is one, is of textual kind (items after the first are not
\* inspected); an empty content passes.
C12_FirstItemTextual ==
    (chk.t > 0 /\ Tables[chk.t] = "searchModules" /\ ~chk.tc.shouldFail) =>
        /\ chk.passed =>
               /\ ~chk.r.err
               /\ ~chk.r.isError
               /\ Len(chk.r.content) > 0 => chk.r.content[1] = "text"
        /\ (~chk.r.err /\ ~chk.r.isError /\ chk.r.content = <<>>) => chk.passed

\* An expected-success case of searchModules has passed on an empty content.
C12_Witness ==
    /\ chk.t > 0
    /\ Tables[chk.t] = "searchModules"
    /\ ~chk.tc.shouldFail
    /\ chk.r.content = <<>>
    /\ chk.passed


\* C13: with p the value of E2E_TEST_PORT when it is set and not empty and
\* 8080 otherwise, the HTTP variant publishes host port p on the container's
\* port 8080, polls http://localhost:p/health and binds the protocol client to
\* http://localhost:p/mcp.
C13_SamePortEverywhere ==
    LET p == IF http.env.set /\ http.env.val # "" THEN http.env.val ELSE "8080" IN
    /\ http.mapping # "" => http.mapping = p \o ":8080"
    /\ http.health # "" => http.health = "http://localhost:" \o p \o "/health"
    /\ http.mcp # "" => http.mcp = "http://localhost:" \o p \o "/mcp"
    /\ pc \in {"http_register", "http_wait", "http_client"} => http.mapping # ""
    /\ (pc = "defer" /\ Name = "HTTP") => http.health # "" /\ http.mcp # ""

\* E2E_TEST_PORT=9191: the health check went to port 9191 and the client is
\* bound to port 9191.
C13_Witness ==
    /\ http.env = [set |-> TRUE, val |-> "9191"]
    /\ http.mapping = "9191:8080"
    /\ http.health = "http://localhost:9191/health"
    /\ http.mcp = "http://localhost:9191/mcp"


\* ------------------------------------------------ getPolicyDetailsHandler
MaxIncluded == 2

\* The terraform_policy_id argument of a request: absent, present and not a
\* string, the empty string, or an identifier.
PolicyIDs == {"policies/hashicorp/cis/1.0.1", "policies/acme/net/2.0.0",
              "policies/acme/iam/0.3.0"}
PolicyArguments ==
    {[present |-> FALSE, isString |-> FALSE, val |-> ""],
     [present |-> TRUE, isString |-> FALSE, val |-> ""]} \cup
    {[present |-> TRUE, isString |-> TRUE, val |-> s] : s \in PolicyIDs \cup {""}}

\* request.RequireString(key): an error when the argument is absent or is not
\* a string.
RequireString(a) ==
    IF ~a.present
    THEN [val |-> "", err |-> [nil |-> FALSE, msg |-> "required argument not found"]]
    ELSE IF ~a.isString
    THEN [val |-> "", err |-> [nil |-> FALSE, msg |-> "argument is not a string"]]
    ELSE [val |-> a.val, err |-> NilErr]

\* utils.LogAndReturnError(logger, context, err): an error that carries the
\* descriptive string, also when the err it is given is nil.
LogAndReturnError(context, err) == [nil |-> FALSE, msg |-> context]

\* The included items of a response, by their type.
IncludedTypes == {"policies", "policy-modules", "policy-library"}
IncludedLists == UNION {[1..k -> IncludedTypes] : k \in 0..MaxIncluded}
\* client.SendRegistryCall returns an error, or a body that json.Unmarshal
\* accepts or rejects.
RegistryOutcomes ==
    {[err |-> TRUE, body |-> [valid |-> FALSE, included |-> <<>>]],
     [err |-> FALSE, body |-> [valid |-> FALSE, included |-> <<>>]]} \cup
    {[err |-> FALSE, body |-> [valid |-> TRUE, included |-> s]] : s \in IncludedLists}

\* The text built from the response: the identifier, the module blocks and
\* the policy lines, in the order of the included items.
PolicyData(id, included) ==
    [id |-> id,
     moduleList |-> SelectSeq(included, LAMBDA p : p = "policy-modules"),
     policyList |-> SelectSeq(included, LAMBDA p : p = "policies")]
\* mcp.NewToolResultText
NewToolResultText(text) == <<[type |-> "text", text |-> text]>>

NotEmptyUnchecked(id) == TRUE
\* terraformPolicyID == "" is refused.
NotEmpty(id) == id # ""

PolicyReturn(result, err) ==
    pol' = [pol EXCEPT !.step = "returned", !.result = result, !.err = err]

PolicyIdle ==
    UNCHANGED <<pc, retpc, proc, failed, build, topCleanups, subCleanups,
                deferred, v, subtestsRun, clientVars, containerID, stopArg,
                dockerVars, started, launch, wfs, suiteVars, sweep, calls,
                http, events, cur, cmds, chk>>

\* A tools/call request for policy_details reaches the handler.
PolicyRequest ==
    /\ pc = "policy"
    /\ pol.step = "idle"
    /\ \E a \in PolicyArguments : pol' = [pol0 EXCEPT !.step = "validate", !.arg = a]
    /\ PolicyIdle

\* RequireString and the empty check.
getPolicyDetailsHandlerValidate ==
    /\ pc = "policy"
    /\ pol.step = "validate"
    /\ LET r == RequireString(pol.arg) IN
        IF ~r.err.nil
        THEN PolicyReturn(<<>>, LogAndReturnError(
                 "terraform_policy_id is required and must be a string, it is fetched by running the search_policies tool",
                 r.err))
        ELSE IF ~NotEmpty(r.val)
        THEN PolicyReturn(<<>>, LogAndReturnError(
                 "terraform_policy_id cannot be empty, it is fetched by running the search_policies tool",
                 NilErr))
        ELSE pol' = [pol EXCEPT !.step = "fetch", !.id = r.val]
    /\ PolicyIdle

\* client.SendRegistryCall and its error.
getPolicyDetailsHandlerFetch ==
    /\ pc = "policy"
    /\ pol.step = "fetch"
    /\ \E o \in RegistryOutcomes :
        IF o.err
        THEN pol' = [pol EXCEPT !.step = "returned",
                                !.regCalls = @ + 1,
                                !.reg = "error",
                                !.result = <<>>,
                                !.err = LogAndReturnError(
                                    "Failed to fetch policy details: registry API did not return a successful response",
                                    [nil |-> FALSE, msg |-> "registry"])]
        ELSE pol' = [pol EXCEPT !.step = "unmarshal",
                                !.regCalls = @ + 1,
                                !.reg = "ok",
                                !.body = o.body]
    /\ PolicyIdle

\* json.Unmarshal into client.TerraformPolicyDetails.
getPolicyDetailsHandlerUnmarshal ==
    /\ pc = "policy"
    /\ pol.step = "unmarshal"
    /\ IF ~pol.body.valid
       THEN PolicyReturn(<<>>, LogAndReturnError(
                "error unmarshalling policy details for " \o pol.id,
                [nil |-> FALSE, msg |-> "json"]))
       ELSE pol' = [pol EXCEPT !.step = "format"]
    /\ PolicyIdle

\* The text is built and returned with a nil error.
getPolicyDetailsHandlerFormat ==
    /\ pc = "policy"
    /\ pol.step = "format"
    /\ PolicyReturn(NewToolResultText(PolicyData(pol.id, pol.body.included)), NilErr)
    /\ PolicyIdle

InitPolicy ==
    /\ pc = "policy"
    /\ retpc = "none"
    /\ proc = "running"
    /\ failed = {}
    /\ build = [count |-> 1, ok |-> TRUE]
    /\ topCleanups = <<>>
    /\ subCleanups = <<>>
    /\ deferred = FALSE
    /\ v = 0
    /\ subtestsRun = {}
    /\ created = {}
    /\ closeCount = [x \in {"Stdio", "HTTP"} |-> 0]
    /\ containerID = ""
    /\ stopArg = ""
    /\ live = {}
    /\ started = {}
    /\ stopped = {}
    /\ cmdFailed = FALSE
    /\ launch = "none"
    /\ wfs = wfs0
    /\ hsFailedIn = {}
    /\ tbl = 0
    /\ cs = 0
    /\ ran = <<>>
    /\ firstFail = <<0, 0>>
    /\ sweep = sweep0
    /\ calls = <<>>
    /\ http = http0
    /\ events = <<>>
    /\ cur = cur0
    /\ cmds = <<>>
    /\ chk = chk0
    /\ pol = pol0

NextPolicy ==
    \/ PolicyRequest
    \/ getPolicyDetailsHandlerValidate
    \/ getPolicyDetailsHandlerFetch
    \/ getPolicyDetailsHandlerUnmarshal
    \/ getPolicyDetailsHandlerFormat

SpecPolicy == InitPolicy /\ [][NextPolicy]_vars

Before(a, b) == Pos(events, b) > 0 => (Pos(events, a) > 0 /\ Pos(events, a) < Pos(events, b))
HttpRunning == v > 0 /\ Name = "HTTP"

\* C14: in the HTTP variant the container is started, then its stop is
\* registered, then the readiness poll runs, then the client is constructed;
\* no client is constructed and no initialize or tool request is sent before a
\* health check has returned status 200.
C14_HttpFactoryOrder ==
    HttpRunning =>
        /\ Before("start", "register")
        /\ Before("register", "poll")
        /\ Before("poll", "ready")
        /\ Before("ready", "client")
        /\ Before("ready", "request")
        /\ Before("ready", "tool")
        /\ Before("client", "request")
        /\ Pos(events, "register") > 0 <=> subCleanups # <<>> \/ Pos(events, "stopContainer") > 0
        /\ "HTTP" \in created <=> Pos(events, "client") > 0

\* The HTTP variant has called a tool.
C14_Witness ==
    HttpRunning /\ Pos(events, "tool") > 0 /\ Pos(events, "ready") = 4

\* C15: when the readiness poll has timed out, no client is constructed, no
\* request is sent and no tool is called in the HTTP sub-test; the stop was
\* registered before the poll began, and once the sub-test is over
\* stopContainer has been invoked on the container that was started.
C15_TimeoutStillStops ==
    (HttpRunning /\ Pos(events, "timeout") > 0) =>
        /\ "HTTP" \notin created
        /\ Pos(events, "client") = 0
        /\ Pos(events, "request") = 0
        /\ Pos(events, "tool") = 0
        /\ ran = <<>>
        /\ Before("register", "poll")
        /\ Before("poll", "timeout")
        /\ pc \in {"loop", "top_cleanup", "sweep_list", "sweep_stop", "done"} =>
               Pos(events, "stopContainer") > 0
        /\ Pos(events, "stopContainer") > 0 =>
               stopArg = HttpContainer /\ HttpContainer \in started

\* The poll timed out, stopContainer was invoked and the run has ended.
C15_Witness ==
    /\ HttpRunning
    /\ Pos(events, "timeout") > 0
    /\ Pos(events, "stopContainer") > 0
    /\ proc = "exited"

\* C16 (as claimed): on the paths that pass and on those that fail, what the
\* HTTP sub-test acquired is released in reverse order: the container is
\* started before the client is constructed, the client is closed before
\* stopContainer is invoked, and when the process has ended without a panic a
\* constructed client has been closed and a started container has had
\* stopContainer invoked on it; the end-of-suite sweep is entered only when
\* both variants have run and the deferred release and the cleanups of each
\* are done.
C16_ReverseOrderRelease ==
    /\ HttpRunning =>
        /\ Before("start", "client")
        /\ Before("client", "close")
        /\ Before("start", "stopContainer")
        /\ (Pos(events, "client") > 0 /\ Pos(events, "stopContainer") > 0) =>
               Before("close", "stopContainer")
        /\ proc \in {"exited", "osexit"} =>
            /\ Pos(events, "client") > 0 => Pos(events, "close") > 0
            /\ Pos(events, "start") > 0 => Pos(events, "stopContainer") > 0
    /\ (sweep.ran \/ pc \in {"sweep_list", "sweep_stop"}) =>
        /\ subtestsRun = {"Stdio", "HTTP"}
        /\ v = Len(Variants)
        /\ ~deferred
        /\ subCleanups = <<>>
        /\ \A x \in created : closeCount[x] = 1
        /\ started # {} => Pos(events, "stopContainer") > 0


\* C17: at every exit of waitForServer, by a ready attempt or by the fatal
\* timeout, and between any two attempts, no response body received by a
\* health attempt is open: waitForServer has called Body.Close exactly once on
\* the response of each attempt that had one, whatever its status, and not at
\* all when the attempt had no response.
C17_BodiesClosedOnce ==
    /\ wfs.open = 0
    /\ wfs.gets > 0 => wfs.lastCloses = (IF wfs.resp # 0 THEN 1 ELSE 0)
    /\ wfs.gets = 0 => wfs.lastCloses = 0

\* waitForServer is about to fail after thirty attempts, the last of which was
\* answered 503.
C17_Witness ==
    /\ wfs.result = "fatal"
    /\ wfs.gets = maxAttempts
    /\ wfs.resp = 503
    /\ wfs.lastCloses = 1

\* C18: in each tool test case one handshake is performed, before the tool
\* call; the tool is invoked at most once in the case, and only when the
\* case's handshake went through.
C18_OneHandshakeOneCall ==
    /\ cur.hs <= 1
    /\ cur.calls <= 1
    /\ cur.calls = 1 => cur.hs = 1 /\ cur.hsOK
    /\ pc = "case_call" => cur = [hs |-> 1, hsOK |-> TRUE, calls |-> 0]
    /\ cur # cur0 => ran # <<>>

\* After a case whose handshake failed with an error and called no tool, a
\* later case of the same variant has called its tool once.
C18_Witness ==
    /\ "case" \in hsFailedIn
    /\ Len(ran) = 2
    /\ cur = [hs |-> 1, hsOK |-> TRUE, calls |-> 1]

\* C19: a call of stopContainer with an empty identifier issues no command;
\* with an identifier it issues one stop, and one kill after it if and only
\* if the stop failed; both commands name the given identifier.
C19_KillIffStopFailed ==
    pc # "stop_entry" =>
        /\ stopArg = "" => cmds = <<>>
        /\ Len(cmds) <= 2
        /\ \A k \in 1..Len(cmds) : cmds[k].id = stopArg
        /\ Len(cmds) >= 1 => cmds[1].cmd = "stop"
        /\ Len(cmds) = 2 => cmds[2].cmd = "kill" /\ ~cmds[1].ok
        /\ pc = "stop_kill" => Len(cmds) = 1 /\ ~cmds[1].ok
        /\ (pc # "stop_kill" /\ stopArg # "") =>
               /\ Len(cmds) >= 1
               /\ Len(cmds) = 2 <=> ~cmds[1].ok

\* stopContainer has returned after a failed stop and a kill that succeeded.
C19_Witness ==
    /\ pc = "harness"
    /\ Len(cmds) = 2
    /\ ~cmds[1].ok
    /\ cmds[2].ok


PolicyInvalid == ~pol.arg.present \/ ~pol.arg.isString \/ pol.arg.val = ""

\* C20: getPolicyDetailsHandler returns an error with a nil result, and makes
\* no registry call, whenever terraform_policy_id is missing, not a string or
\* empty; it returns an error with a nil result when the registry call fails
\* or the response cannot be unmarshalled; it returns a text result with a nil
\* error only when validation, the registry call and unmarshalling succeeded.
C20_PolicyDetailsErrors ==
    /\ PolicyInvalid => pol.regCalls = 0
    /\ pol.regCalls <= 1
    /\ pol.step = "returned" =>
        /\ PolicyInvalid => pol.result = <<>> /\ ~pol.err.nil /\ pol.err.msg # ""
        /\ pol.reg = "error" => pol.result = <<>> /\ ~pol.err.nil /\ pol.err.msg # ""
        /\ (pol.reg = "ok" /\ ~pol.body.valid) =>
               pol.result = <<>> /\ ~pol.err.nil /\ pol.err.msg # ""
        /\ pol.result = <<>> <=> ~pol.err.nil
        /\ pol.result # <<>> =>
               /\ ~PolicyInvalid
               /\ pol.regCalls = 1
               /\ pol.reg = "ok"
               /\ pol.body.valid
               /\ pol.result[1].type = "text"
               /\ pol.result[1].text.id = pol.arg.val

\* The handler has refused an empty terraform_policy_id.
C20_Witness ==
    /\ pol.step = "returned"
    /\ pol.arg = [present |-> TRUE, isString |-> TRUE, val |-> ""]
    /\ pol.result = <<>>
    /\ ~pol.err.nil
    /\ pol.err.msg = "terraform_policy_id cannot be empty, it is fetched by running the search_policies tool"
    /\ pol.regCalls = 0

====
